---- MODULE Spec2Model ----
(***************************************************************************)
(* Model of src/main.py: the template cache and locator (ImageFinder), the *)
(* retry wrapper, the click executor (ClickExecutor) and the battle loop   *)
(* (GameAuto).  Durations are in tenths of a second.                       *)
(*                                                                         *)
(* Three specifications share the variables and the library actions:       *)
(*   Spec        the program as __main__ runs it: GameAuto() and then      *)
(*               execute_battle_flow();                                    *)
(*   SpecLocate  ImageFinder driven by arbitrary calls of _load_image and  *)
(*               find_with_retry;                                          *)
(*   SpecClick   ClickExecutor.execute_click applied to arbitrary          *)
(*               arguments.                                                *)
(***************************************************************************)
EXTENDS Integers, Sequences, FiniteSets, TLC

\* ---------------------------------------------------------------- bounds
\* pyautogui.size(): the screen of the session (environment).
ScreenW == 3
ScreenH == 2
\* Largest max_attempts the SpecLocate driver passes.
MaxAttempts == 3
\* Largest number of template files that are absent or undecodable.
MaxMissing == 1

\* ------------------------------------------------------ program constants
\* ClickExecutor._CLICK_OFFSET
CLICK_OFFSET == 5
\* find_with_retry's default max_attempts
DefaultMaxAttempts == 3
\* default_cfg['battle']['retry_interval'], 2 s
DefaultRetryInterval == 20
\* default_cfg['battle']['battle_duration'], 120 s
BattleDuration == 1200
\* find_image's pre_delay, 0.5 s
FindPreDelay == 5
\* execute_click's pre_delay and post_delay, 0.3 s and 0.5 s
ClickPreDelay == 3
ClickPostDelay == 5
\* find_with_retry: random.uniform(-0.2, 0.2) and the least sleep, 0.1 s
BackoffJitter == 2
BackoffFloor == 1
\* _process_skip_battle's closing time.sleep(3)
SettleDelay == 30

\* Python's None for an optional point: the empty tuple.
None == <<>>
\* Python's None for an optional image (cv2.imread's None, a cached miss).
NoImage == 0

\* The points the screen-matching capability may report.
Points == {<<0, 0>>, <<3, 2>>}

\* The template names the program uses.
Names == {"game_pos.png", "select_start.png", "battle_start.png",
          "fatigue_value.png", "ok.png", "battle_skip.png", "result.png",
          "huodong.png", "level.png", "expensive.png", "watch.png"}

\* The names, points and offsets the drivers of SpecLocate and SpecClick use.
DriverNames == {"ok.png", "result.png"}
DriverPoints == {<<0, 0>>, <<3, 2>>, <<ScreenW, ScreenH>>}
DriverOffsets == {-7, 0, 4}
\* The screens the driver of SpecClick runs on: the small one, and one with
\* room for the whole jitter range around a point.
DriverScreens == {<<ScreenW, ScreenH>>,
                  <<ScreenW + 2 * CLICK_OFFSET, ScreenH + 2 * CLICK_OFFSET>>}
\* The base_interval arguments (None, or a number in a 1-tuple) and the
\* configured retry intervals the driver of SpecLocate uses.
DriverBaseIntervals == {<<>>, <<0>>, <<1>>, <<10>>}
DriverRetryIntervals == {0, DefaultRetryInterval}

Max(a, b) == IF a >= b THEN a ELSE b
Min(a, b) == IF a <= b THEN a ELSE b

VARIABLES
  pc,            \* position of the control flow of __main__ / GameAuto
  op,            \* position inside find_with_retry: idle, try, backoff, done
  img_name,      \* find_with_retry's img_name
  max_attempts,  \* find_with_retry's max_attempts
  base_interval, \* find_with_retry's base_interval: None or <<number>>
  interval,      \* find_with_retry's interval
  attempt,       \* find_with_retry's loop variable
  position,      \* value returned by find_with_retry (a point or None)
  IMAGE_CACHE,   \* ImageFinder._IMAGE_CACHE: name -> image or NoImage
  origin_pos,    \* GameAuto.origin_pos
  screen,        \* GameAuto.(screen_w, screen_h), None before it is read
  display,       \* what pyautogui.size() answers
  retry_interval, \* config['battle']['retry_interval']
  exc,           \* the exception that ended the program, "none" otherwise
  args,          \* arguments of the execute_click call of SpecClick
  loads,         \* the _load_image call made by the step just taken
  matched,       \* the locateCenterOnScreen call made by the step just taken
  pointer,       \* the pointer calls (moveTo, click) made by the step just taken
  click_ret,     \* the value returned by the execute_click of the step just taken
  click_call,    \* the arguments of the execute_click of the step just taken
  slept,         \* the time.sleep calls made by the step just taken, in order
  matchCalls,    \* locateCenterOnScreen calls made by the running find_with_retry
  backoffSleeps, \* backoff sleeps made by the running find_with_retry
  bsClicks,      \* execute_click calls made by the running _process_battle_start
  skipFound,     \* this cycle's find_with_retry('battle_skip.png') returned a point
  skipClicked    \* this cycle's smart_click('battle_skip.png') returned True

vars == <<pc, op, img_name, max_attempts, base_interval, interval, attempt,
          position, IMAGE_CACHE, origin_pos, screen, display, retry_interval,
          exc, args, loads, matched, pointer, click_ret, click_call, slept,
          matchCalls, backoffSleeps, bsClicks, skipFound, skipClicked>>

\* The variables of GameAuto's control flow.
flow == <<pc, origin_pos, screen, exc, bsClicks, skipFound, skipClicked>>
\* The variables of a find_with_retry call.
frame == <<op, img_name, max_attempts, base_interval, interval, attempt,
           position, matchCalls, backoffSleeps>>
\* The environment of a run: the screen and the configuration.
env == <<display, retry_interval>>
\* The variables of the template cache.
cache == <<IMAGE_CACHE>>

\* ----------------------------------------------------- TimingController
\* kwargs.pop(key, default)
Pop(kw, key, default) == IF key \in DOMAIN kw THEN kw[key] ELSE default

\* The kwargs the wrapper of TimingController.delay hands to the wrapped
\* function: pre_delay and post_delay are removed, the rest is passed on.
Rest(kw) == [k \in (DOMAIN kw) \ {"pre_delay", "post_delay"} |-> kw[k]]

\* A call without keyword arguments.
NoKw == [k \in {} |-> 0]

\* -------------------------------------------- the statements of GameAuto
\* The statements of GameAuto, as the kind of call each makes.
SmartClick(img, kw) == [kind |-> "smart_click", img |-> img, kw |-> kw]
Find(img, kw) == [kind |-> "find", img |-> img, kw |-> kw]
Click(from, ox, oy, kw) ==
  [kind |-> "click", from |-> from, offset_x |-> ox, offset_y |-> oy,
   kw |-> kw]
Sleep == [kind |-> "sleep"]

\* The statement at each position of the control flow.
Step(p) ==
  CASE p = "origin" ->
         Find("game_pos.png", [pre_delay |-> 10, post_delay |-> 10])
    [] p = "select" -> SmartClick("select_start.png", [pre_delay |-> 10])
    [] p = "bstart" -> SmartClick("battle_start.png", [post_delay |-> 20])
    [] p = "fatigue" ->
         Find("fatigue_value.png", [max_attempts |-> 2, pre_delay |-> 5])
    [] p = "fat_click" -> Click("fatigue_pos", 72, 55, [pre_delay |-> 10])
    [] p = "fat_ok" -> SmartClick("ok.png", [pre_delay |-> 10])
    [] p = "bstart2" ->
         SmartClick("battle_start.png", [pre_delay |-> 10, post_delay |-> 20])
    [] p = "res_click1" -> Click("origin_pos", 200, 200, [pre_delay |-> 10])
    [] p = "res_click2" -> Click("origin_pos", 200, 200, [pre_delay |-> 20])
    [] p = "skip" -> SmartClick("battle_skip.png", [post_delay |-> 10])
    [] p = "sk_ok" -> SmartClick("ok.png", [post_delay |-> 10])
    [] p = "sk_click" -> Click("origin_pos", 160, 100, [pre_delay |-> 15])
    [] p = "sk_result" -> SmartClick("result.png", [pre_delay |-> 10])
    [] p = "sk_huodong" ->
         Find("huodong.png", [max_attempts |-> 2, pre_delay |-> 10])
    [] p = "sk_huodong_ok" ->
         SmartClick("ok.png", [pre_delay |-> 10, max_attempts |-> 2])
    [] p = "sk_level" ->
         Find("level.png", [max_attempts |-> 2, pre_delay |-> 10])
    [] p = "sk_level_ok" ->
         SmartClick("ok.png", [pre_delay |-> 10, max_attempts |-> 2])
    [] p = "sk_result2" -> SmartClick("result.png", [pre_delay |-> 10])
    [] p = "sk_expensive" -> SmartClick("expensive.png", [pre_delay |-> 15])
    [] p = "sk_watch" ->
         SmartClick("watch.png", [max_attempts |-> 2, pre_delay |-> 10])
    [] p = "sk_sleep" -> Sleep
    [] p = "normal" -> Sleep
    [] OTHER -> [kind |-> "none"]

\* The keyword arguments of the call made at position p.
Kw(p) ==
  IF Step(p).kind \in {"find", "smart_click", "click"} THEN Step(p).kw
  ELSE NoKw

\* `if actual > 0: time.sleep(actual)`, as the list of sleeps made
Slept(d) == IF d > 0 THEN <<d>> ELSE <<>>


\* ---------------------------------------------------------- ImageFinder
\* A plausible bug: a cached miss is taken for "not cached yet"
\* (`if self._IMAGE_CACHE.get(img_name) is not None`).
InCacheSkipsMiss(name, c) == name \in DOMAIN c /\ c[name] # NoImage

\* A plausible bug: the cache is written but never consulted.
InCacheNever(name, c) == FALSE

\* img_name in self._IMAGE_CACHE
InCache(name, c) == name \in DOMAIN c

\* self._IMAGE_CACHE[img_name] = v
Put(c, name, v) ==
  [k \in (DOMAIN c) \cup {name} |-> IF k = name THEN v ELSE c[k]]

\* The names cached as a miss.
Missing(c) == {k \in DOMAIN c : c[k] = NoImage}

\* The array a cv2.imread call returns is a new object: it differs from the
\* object cached under the name, if there is one.
Fresh(name, c) == IF name \in DOMAIN c THEN c[name] + 1 ELSE 1

\* _load_image(name) on cache c: the set of possible outcomes.  ret is the
\* returned image, cache the cache afterwards, exists and imread tell
\* whether os.path.exists and cv2.imread were called.  The file is absent,
\* or undecodable (imread returns None or raises), or decoded.
load_image(name, c) ==
  IF InCache(name, c)
  THEN {[ret |-> c[name], cache |-> c, exists |-> FALSE, imread |-> FALSE]}
  ELSE {[ret |-> NoImage, cache |-> Put(c, name, NoImage),
         exists |-> TRUE, imread |-> r] :
          r \in IF Cardinality(Missing(c) \ {name}) < MaxMissing
                THEN BOOLEAN ELSE {}}
       \cup
       {[ret |-> Fresh(name, c), cache |-> Put(c, name, Fresh(name, c)),
         exists |-> TRUE, imread |-> TRUE]}

\* The _load_image call as an event of the step.
LoadEvent(name, ld) ==
  [name |-> name, ret |-> ld.ret, exists |-> ld.exists, imread |-> ld.imread]

\* A plausible bug: find_image goes on to the matching capability without
\* testing the image.
ImageIsNoneNever(image) == FALSE

\* find_image: `if image is None: return None`
ImageIsNone(image) == image = NoImage

\* What pyautogui.locateCenterOnScreen may do: report a point, report
\* nothing, or raise.
MatchOutcomes ==
  {[raised |-> FALSE, point |-> p] : p \in Points \cup {None}}
    \cup {[raised |-> TRUE, point |-> None]}

\* find_image's result for an outcome of the matching capability.
LocateResult(m) == IF m.raised THEN None ELSE m.point

\* Python truth of an optional point: a tuple (x, y) is true, None is false.
Truthy(p) == p # None

\* A plausible bug: the loop backs off after every attempt, found or not.
AfterAttemptAlwaysBackoff(found) == "backoff"

\* find_with_retry after an attempt: return on success, back off otherwise.
AfterAttempt(found) == IF found THEN "done" ELSE "backoff"

\* `base_interval or d`: None and 0 are false.
OrElse(b, d) == IF b = None \/ b[1] = 0 THEN d ELSE b[1]

\* A plausible bug: the sleep time is not floored.
BackoffSleepTimesNoFloor(k, i) ==
  {(2 ^ k) * i + j : j \in (0 - BackoffJitter)..BackoffJitter}

\* max(sleep_time, 0.1) for every sleep_time the jitter allows.
BackoffSleepTimes(k, i) ==
  {Max((2 ^ k) * i + j, BackoffFloor) :
     j \in (0 - BackoffJitter)..BackoffJitter}

\* The post_delay sleep of find_with_retry's wrapper, made when it returns.
ReturnSleep(returns) ==
  IF returns THEN Slept(Pop(Kw(pc), "post_delay", 0)) ELSE <<>>

\* One iteration of find_with_retry's loop up to the find_image call:
\* find_image loads the template and, unless it is None, asks the matching
\* capability.
FindImage ==
  /\ op = "try"
  /\ \E ld \in load_image(img_name, IMAGE_CACHE) :
     \E m \in MatchOutcomes :
       LET asked  == ~ImageIsNone(ld.ret)
           result == IF asked THEN LocateResult(m) ELSE None
       IN  /\ IMAGE_CACHE' = ld.cache
           /\ loads' = <<LoadEvent(img_name, ld)>>
           /\ matched' = IF asked THEN <<m>> ELSE <<>>
           /\ matchCalls' = IF asked THEN matchCalls + 1 ELSE matchCalls
           /\ op' = AfterAttempt(Truthy(result))
           /\ position' = result
           /\ slept' = <<FindPreDelay>> \o ReturnSleep(op' = "done")
  /\ pointer' = <<>>
  /\ click_ret' = <<>>
  /\ click_call' = <<>>
  /\ UNCHANGED <<flow, args, env, img_name, max_attempts, base_interval, interval, attempt, backoffSleeps>>

\* The rest of the iteration: the backoff sleep, then the next attempt or,
\* the range being exhausted, `return None`.
Backoff ==
  /\ op = "backoff"
  /\ backoffSleeps' = backoffSleeps + 1
  /\ \E t \in BackoffSleepTimes(attempt, interval) :
       slept' = <<t>> \o ReturnSleep(attempt >= max_attempts)
  /\ IF attempt < max_attempts
     THEN /\ attempt' = attempt + 1
          /\ op' = "try"
     ELSE /\ attempt' = attempt
          /\ op' = "done"
  /\ position' = None
  /\ loads' = <<>>
  /\ matched' = <<>>
  /\ pointer' = <<>>
  /\ click_ret' = <<>>
  /\ click_call' = <<>>
  /\ UNCHANGED <<flow, cache, args, env, img_name, max_attempts, base_interval, interval, matchCalls>>

\* ------------------------------------------------------------ SpecLocate
\* The driver calls _load_image(name).
CallLoadImage ==
  /\ pc = "locate"
  /\ op \in {"idle", "done"}
  /\ \E name \in DriverNames :
     \E ld \in load_image(name, IMAGE_CACHE) :
       /\ IMAGE_CACHE' = ld.cache
       /\ loads' = <<LoadEvent(name, ld)>>
  /\ matched' = <<>>
  /\ pointer' = <<>>
  /\ click_ret' = <<>>
  /\ click_call' = <<>>
  /\ slept' = <<>>
  /\ UNCHANGED <<flow, frame, args, env>>

\* The driver calls find_with_retry(name, max_attempts=n, base_interval=b).
CallFindWithRetry ==
  /\ pc = "locate"
  /\ op \in {"idle", "done"}
  /\ \E name \in DriverNames, n \in 1..MaxAttempts :
       /\ img_name' = name
       /\ max_attempts' = n
  /\ \E b \in DriverBaseIntervals :
       /\ base_interval' = b
       /\ interval' = OrElse(b, retry_interval)
  /\ op' = "try"
  /\ attempt' = 1
  /\ position' = None
  /\ matchCalls' = 0
  /\ backoffSleeps' = 0
  /\ loads' = <<>>
  /\ matched' = <<>>
  /\ pointer' = <<>>
  /\ click_ret' = <<>>
  /\ click_call' = <<>>
  /\ slept' = <<>>
  /\ UNCHANGED <<flow, cache, args, env>>

NoArgs == [position |-> None, offset_x |-> 0, offset_y |-> 0,
           random_offset |-> TRUE]

InitCommon ==
  /\ op = "idle"
  /\ img_name = ""
  /\ max_attempts = 0
  /\ base_interval = None
  /\ interval = 0
  /\ attempt = 0
  /\ position = None
  /\ IMAGE_CACHE = [k \in {} |-> NoImage]
  /\ origin_pos = None
  /\ screen = None
  /\ exc = "none"
  /\ loads = <<>>
  /\ matched = <<>>
  /\ pointer = <<>>
  /\ click_ret = <<>>
  /\ click_call = <<>>
  /\ slept = <<>>
  /\ matchCalls = 0
  /\ backoffSleeps = 0
  /\ bsClicks = 0
  /\ skipFound = FALSE
  /\ skipClicked = FALSE

InitLocate ==
  /\ InitCommon
  /\ pc = "locate"
  /\ args = NoArgs
  /\ display = <<ScreenW, ScreenH>>
  /\ retry_interval \in DriverRetryIntervals

NextLocate ==
  \/ CallLoadImage
  \/ CallFindWithRetry
  \/ FindImage
  \/ Backoff

SpecLocate == InitLocate /\ [][NextLocate]_vars

\* -------------------------------------------------------- ClickExecutor
\* A plausible bug: the jitter range is one pixel too wide.
JitterOffByOne(random_offset) ==
  IF random_offset THEN (0 - CLICK_OFFSET - 1)..(CLICK_OFFSET + 1) ELSE {0}

\* random.randint(-self._CLICK_OFFSET, self._CLICK_OFFSET), when asked for
Jitter(random_offset) ==
  IF random_offset THEN (0 - CLICK_OFFSET)..CLICK_OFFSET ELSE {0}

\* A plausible bug: the upper clamp only.
ClampNoFloor(t, hi) == Min(t, hi)

\* max(0, min(t, hi))
Clamp(t, hi) == Max(0, Min(t, hi))

\* The target before the boundary check.
Unclamped(p, ox, oy, jx, jy) == <<p[1] + ox + jx, p[2] + oy + jy>>

\* The target after the boundary check against pyautogui.size().
Target(p, ox, oy, jx, jy) ==
  <<Clamp(Unclamped(p, ox, oy, jx, jy)[1], display[1]),
    Clamp(Unclamped(p, ox, oy, jx, jy)[2], display[2])>>

\* What the pointer capability may do during a click: size(), moveTo() or
\* click() raises, or all three succeed.
PointerOutcomes == {"size_raises", "moveTo_raises", "click_raises", "ok"}

\* The pointer calls execute_click makes for a target and an outcome.
PointerCalls(t, out) ==
  LET move  == [call |-> "moveTo", x |-> t[1], y |-> t[2]]
      press == [call |-> "click", x |-> t[1], y |-> t[2]]
  IN  CASE out = "size_raises"   -> <<>>
        [] out = "moveTo_raises" -> <<move>>
        [] OTHER                 -> <<move, press>>

\* execute_click(p, ox, oy, random_offset): the pointer calls it makes and
\* the value it returns (False when the pointer capability raised).
execute_click(p, ox, oy, random_offset) ==
  /\ click_call' = <<[position |-> p, offset_x |-> ox, offset_y |-> oy,
                      random_offset |-> random_offset]>>
  /\ \E jx \in Jitter(random_offset), jy \in Jitter(random_offset) :
     \E out \in PointerOutcomes :
       /\ pointer' = PointerCalls(Target(p, ox, oy, jx, jy), out)
       /\ click_ret' = <<out = "ok">>

\* The sleeps of execute_click's wrapper, before and after the call.
ClickSleeps(kw) ==
  Slept(Pop(kw, "pre_delay", ClickPreDelay))
    \o Slept(Pop(kw, "post_delay", ClickPostDelay))

\* The keyword arguments execute_click binds when its position and offsets
\* are given positionally, as smart_click gives them: any other keyword is a
\* TypeError raised by the call itself, outside execute_click's try block.
BindsExecuteClick(kw) == DOMAIN Rest(kw) \subseteq {"random_offset"}

\* ------------------------------------------------------------- SpecClick
\* The driver calls execute_click(**args).
CallExecuteClick ==
  /\ pc = "click"
  /\ click_ret = <<>>
  /\ execute_click(args.position, args.offset_x, args.offset_y,
                   args.random_offset)
  /\ slept' = ClickSleeps(NoKw)
  /\ loads' = <<>>
  /\ matched' = <<>>
  /\ UNCHANGED <<flow, frame, cache, args, env>>

InitClick ==
  /\ InitCommon
  /\ pc = "click"
  /\ args \in [position : DriverPoints, offset_x : DriverOffsets,
               offset_y : DriverOffsets, random_offset : BOOLEAN]
  /\ display \in DriverScreens
  /\ retry_interval = DefaultRetryInterval

NextClick == CallExecuteClick

SpecClick == InitClick /\ [][NextClick]_vars

\* -------------------------------------------------------------- GameAuto
\* The positions inside _process_skip_battle.
SkipPcs == {"sk_ok", "sk_click", "sk_result", "sk_huodong", "sk_huodong_ok",
            "sk_level", "sk_level_ok", "sk_result2", "sk_expensive",
            "sk_watch", "sk_sleep"}

\* The positions inside _process_battle_start.
BattleStartPcs == {"bstart", "fatigue", "fat_click", "fat_ok", "bstart2"}

\* The positions inside the `while True` of execute_battle_flow.
LoopPcs == {"select", "res_click1", "res_click2", "skip", "normal"}
             \cup BattleStartPcs \cup SkipPcs

\* A plausible bug: the value of _process_phase is not tested.
AfterSelectGoesOn(ok) == "bstart"

\* _battle_cycle: after _process_phase('select_start.png').
AfterSelect(ok) == IF ok THEN "bstart" ELSE "select"

\* _process_battle_start: after the first smart_click('battle_start.png').
AfterBattleStart(ok) == IF ok THEN "fatigue" ELSE "select"

\* A plausible bug: 'battle_start.png' is retried whether or not the
\* fatigue prompt was found.
AfterFatigueAlwaysRetries(found) == IF found THEN "fat_click" ELSE "bstart2"

\* _process_battle_start: after find_with_retry('fatigue_value.png').
AfterFatigue(found) == IF found THEN "fat_click" ELSE "res_click1"

\* A plausible bug: the fatigue branch ends with `return True`.
AfterSecondStartAlways(ok) == "res_click1"

\* _process_battle_start's last statement, and _battle_cycle's test of it.
AfterSecondStart(ok) == IF ok THEN "res_click1" ELSE "select"

\* A plausible bug: the two branches swapped.
AfterSkipSwapped(ok) == IF ok THEN "normal" ELSE "sk_ok"

\* _handle_battle_result: after smart_click('battle_skip.png').
AfterSkip(ok) == IF ok THEN "sk_ok" ELSE "normal"

\* A plausible bug: the second of the two clicks is dropped.
AfterResultClickOnce(p) == "skip"

\* _handle_battle_result: after each of its two execute_click calls.
AfterResultClick(p) == IF p = "res_click1" THEN "res_click2" ELSE "skip"

\* A plausible bug: _find_origin_position logs the failure and returns.
AfterOriginNoRaise(found) == "select"

\* _find_origin_position: the main loop is next, or RuntimeError is raised.
AfterOrigin(found) == IF found THEN "select" ELSE "fatal"

\* A plausible bug: every point found by a direct find_with_retry is kept
\* as origin_pos.
NewOriginAlways(p, found, origin) == found

\* self.origin_pos after the find_with_retry of position p has returned:
\* only _find_origin_position assigns it.
NewOrigin(p, found, origin) == IF p = "origin" THEN found ELSE origin

\* A plausible bug: the try block is inside the loop and the exception is
\* logged, so that the next cycle starts.
AfterErrorGoesOn(p) == "select"

\* An exception other than KeyboardInterrupt raised at position p of the
\* loop: logged and re-raised by execute_battle_flow, logged by __main__.
AfterError(p) == "raised"

\* A plausible bug: execute_battle_flow has no `except KeyboardInterrupt`.
AfterInterruptNoHandler(inLoop) == "killed"

\* Where a KeyboardInterrupt leads: caught by execute_battle_flow inside
\* the loop, uncaught inside GameAuto().
AfterInterrupt(inLoop) == IF inLoop THEN "stopped" ELSE "killed"

\* A plausible bug: the interrupt is only looked at between two cycles.
InterruptibleBetweenCycles(p, o) ==
  (p = "select" /\ o = "idle") \/ p \in {"init", "origin"}

\* The positions at which a KeyboardInterrupt can be raised: any statement
\* of GameAuto() or of the loop, whatever find_with_retry is doing.
Interruptible(p, o) == p \in LoopPcs \cup {"init", "origin"}

\* The position that follows p, r being the value of the call made at p.
After(p, r) ==
  CASE p = "select"        -> AfterSelect(r)
    [] p = "bstart"        -> AfterBattleStart(r)
    [] p = "fatigue"       -> AfterFatigue(r)
    [] p = "fat_click"     -> "fat_ok"
    [] p = "fat_ok"        -> "bstart2"
    [] p = "bstart2"       -> AfterSecondStart(r)
    [] p = "res_click1"    -> AfterResultClick(p)
    [] p = "res_click2"    -> AfterResultClick(p)
    [] p = "skip"          -> AfterSkip(r)
    [] p = "sk_ok"         -> "sk_click"
    [] p = "sk_click"      -> "sk_result"
    [] p = "sk_result"     -> "sk_huodong"
    [] p = "sk_huodong"    -> IF r THEN "sk_huodong_ok" ELSE "sk_level"
    [] p = "sk_huodong_ok" -> "sk_level"
    [] p = "sk_level"      -> IF r THEN "sk_level_ok" ELSE "sk_result2"
    [] p = "sk_level_ok"   -> "sk_result2"
    [] p = "sk_result2"    -> "sk_expensive"
    [] p = "sk_expensive"  -> "sk_watch"
    [] p = "sk_watch"      -> "sk_sleep"
    [] p = "sk_sleep"      -> "select"
    [] p = "normal"        -> "select"

\* The frame of find_with_retry is popped.
PopFrame ==
  /\ op' = "idle"
  /\ img_name' = ""
  /\ max_attempts' = 0
  /\ base_interval' = None
  /\ interval' = 0
  /\ attempt' = 0
  /\ matchCalls' = 0
  /\ backoffSleeps' = 0

\* The bookkeeping of a step from position p to position q: bsClicks counts
\* the execute_click calls (n in this step) of _process_battle_start and is
\* cleared once the caller has gone on; the marks of the cycle are cleared
\* when a new cycle starts.
Bookkeeping(p, q, n) ==
  /\ bsClicks' = IF p \in BattleStartPcs THEN bsClicks + n ELSE 0
  /\ IF q = "select" THEN skipFound' = FALSE /\ skipClicked' = FALSE
     ELSE IF p = "skip"
     THEN /\ skipFound' = Truthy(position)
          /\ skipClicked' = (click_ret' = <<TRUE>>)
     ELSE UNCHANGED <<skipFound, skipClicked>>

\* _init_screen_info: pyautogui.size() answers or raises; the exception is
\* re-raised out of GameAuto() and logged by __main__.
InitScreenInfo ==
  /\ pc = "init"
  /\ \/ /\ screen' = display
        /\ pc' = "origin"
        /\ exc' = exc
     \/ /\ screen' = screen
        /\ pc' = "fatal"
        /\ exc' = "Exception"
  /\ loads' = <<>>
  /\ matched' = <<>>
  /\ pointer' = <<>>
  /\ click_ret' = <<>>
  /\ click_call' = <<>>
  /\ slept' = <<>>
  /\ UNCHANGED <<frame, cache, args, env, origin_pos, bsClicks, skipFound,
                 skipClicked>>

\* A statement that calls find_with_retry (directly or through smart_click)
\* enters it: the wrapper of TimingController.delay removes pre_delay and
\* post_delay and passes the rest on.
StartFind ==
  /\ Step(pc).kind \in {"find", "smart_click"}
  /\ op = "idle"
  /\ op' = "try"
  /\ img_name' = Step(pc).img
  /\ max_attempts' = Pop(Rest(Step(pc).kw), "max_attempts", DefaultMaxAttempts)
  /\ base_interval' = None
  /\ interval' = OrElse(base_interval', retry_interval)
  /\ slept' = Slept(Pop(Step(pc).kw, "pre_delay", 0))
  /\ attempt' = 1
  /\ position' = None
  /\ matchCalls' = 0
  /\ backoffSleeps' = 0
  /\ bsClicks' = IF pc \in BattleStartPcs THEN bsClicks ELSE 0
  /\ loads' = <<>>
  /\ matched' = <<>>
  /\ pointer' = <<>>
  /\ click_ret' = <<>>
  /\ click_call' = <<>>
  /\ UNCHANGED <<pc, origin_pos, screen, exc, skipFound, skipClicked, cache,
                 args, env>>

\* A direct find_with_retry has returned: _find_origin_position keeps the
\* point as origin_pos or raises RuntimeError; the others branch on it.
FindFinish ==
  /\ Step(pc).kind = "find"
  /\ op = "done"
  /\ origin_pos' = NewOrigin(pc, position, origin_pos)
  /\ IF pc = "origin"
     THEN /\ pc' = AfterOrigin(Truthy(position))
          /\ exc' = IF pc' = "fatal" THEN "RuntimeError" ELSE exc
          /\ position' = None
     ELSE /\ pc' = After(pc, Truthy(position))
          /\ position' = IF pc = "fatigue" THEN position ELSE None
          /\ exc' = exc
  /\ PopFrame
  /\ slept' = <<>>
  /\ loads' = <<>>
  /\ matched' = <<>>
  /\ pointer' = <<>>
  /\ click_ret' = <<>>
  /\ click_call' = <<>>
  /\ UNCHANGED <<screen, cache, args, env, bsClicks, skipFound, skipClicked>>

\* smart_click after its find_with_retry has returned: with a point it
\* calls execute_click(position, offset_x, offset_y, **kwargs) and returns
\* its value, without one it returns False.  The call raises TypeError when
\* kwargs holds a keyword execute_click does not take; the exception leaves
\* execute_battle_flow and ends the program.
SmartClickFinish ==
  /\ Step(pc).kind = "smart_click"
  /\ op = "done"
  /\ IF ~Truthy(position)
     THEN /\ pointer' = <<>>
          /\ click_ret' = <<>>
          /\ click_call' = <<>>
          /\ slept' = <<>>
          /\ pc' = After(pc, FALSE)
          /\ exc' = exc
          /\ Bookkeeping(pc, pc', 0)
     ELSE IF ~BindsExecuteClick(Step(pc).kw)
     THEN /\ pointer' = <<>>
          /\ click_ret' = <<>>
          /\ click_call' = <<>>
          /\ slept' = Slept(Pop(Step(pc).kw, "pre_delay", ClickPreDelay))
          /\ pc' = AfterError(pc)
          /\ exc' = "TypeError"
          /\ Bookkeeping(pc, pc', 0)
     ELSE /\ execute_click(position, 0, 0,
                           Pop(Rest(Step(pc).kw), "random_offset", TRUE))
          /\ slept' = ClickSleeps(Step(pc).kw)
          /\ pc' = After(pc, click_ret'[1])
          /\ exc' = exc
          /\ Bookkeeping(pc, pc', 1)
  /\ PopFrame
  /\ position' = None
  /\ loads' = <<>>
  /\ matched' = <<>>
  /\ UNCHANGED <<origin_pos, screen, cache, args, env>>

\* A statement that calls execute_click directly, on origin_pos or on the
\* point of the fatigue prompt; its value is ignored.
DirectClick ==
  /\ Step(pc).kind = "click"
  /\ op = "idle"
  /\ execute_click(IF Step(pc).from = "origin_pos" THEN origin_pos
                   ELSE position,
                   Step(pc).offset_x, Step(pc).offset_y, TRUE)
  /\ slept' = ClickSleeps(Step(pc).kw)
  /\ pc' = After(pc, TRUE)
  /\ Bookkeeping(pc, pc', 1)
  /\ position' = None
  /\ loads' = <<>>
  /\ matched' = <<>>
  /\ UNCHANGED <<op, img_name, max_attempts, base_interval, interval, attempt, matchCalls,
                 backoffSleeps, origin_pos, screen, exc, cache, args, env>>

\* _process_normal_battle: time.sleep(battle_duration), then the next cycle.
ProcessNormalBattle ==
  /\ pc = "normal"
  /\ slept' = <<BattleDuration>>
  /\ pc' = After(pc, TRUE)
  /\ Bookkeeping(pc, pc', 0)
  /\ loads' = <<>>
  /\ matched' = <<>>
  /\ pointer' = <<>>
  /\ click_ret' = <<>>
  /\ click_call' = <<>>
  /\ UNCHANGED <<frame, origin_pos, screen, exc, cache, args, env>>

\* _process_skip_battle's closing time.sleep(3), then the next cycle.
SkipSettle ==
  /\ pc = "sk_sleep"
  /\ slept' = <<SettleDelay>>
  /\ pc' = After(pc, TRUE)
  /\ Bookkeeping(pc, pc', 0)
  /\ loads' = <<>>
  /\ matched' = <<>>
  /\ pointer' = <<>>
  /\ click_ret' = <<>>
  /\ click_call' = <<>>
  /\ UNCHANGED <<frame, origin_pos, screen, exc, cache, args, env>>

\* The user interrupts: inside execute_battle_flow the KeyboardInterrupt
\* unwinds whatever is running and is caught and logged; inside GameAuto()
\* nothing catches it (`except Exception` does not) and the process dies.
Interrupt ==
  /\ Interruptible(pc, op)
  /\ pc' = AfterInterrupt(pc \in LoopPcs)
  /\ exc' = "KeyboardInterrupt"
  /\ PopFrame
  /\ position' = None
  /\ loads' = <<>>
  /\ matched' = <<>>
  /\ pointer' = <<>>
  /\ click_ret' = <<>>
  /\ click_call' = <<>>
  /\ slept' = <<>>
  /\ UNCHANGED <<origin_pos, screen, cache, args, env, bsClicks, skipFound,
                 skipClicked>>

Init ==
  /\ InitCommon
  /\ pc = "init"
  /\ args = NoArgs
  /\ display = <<ScreenW, ScreenH>>
  /\ retry_interval = DefaultRetryInterval

Next ==
  \/ InitScreenInfo
  \/ StartFind
  \/ FindImage
  \/ Backoff
  \/ FindFinish
  \/ SmartClickFinish
  \/ DirectClick
  \/ ProcessNormalBattle
  \/ SkipSettle
  \/ Interrupt

Spec == Init /\ [][Next]_vars

\* ---------------------------------------------- claims on ImageFinder
\* The template of the running find_with_retry is cached as an image.
TemplateLoaded ==
  img_name \in DOMAIN IMAGE_CACHE /\ IMAGE_CACHE[img_name] # NoImage

\* The template of the running find_with_retry is cached as a miss.
TemplateMissed ==
  img_name \in DOMAIN IMAGE_CACHE /\ IMAGE_CACHE[img_name] = NoImage

\* C1: a find_with_retry call with max_attempts = n >= 1 whose every attempt
\* fails (the template is loaded, the matching capability never reports a
\* point) has made exactly n matching invocations and exactly n-1 backoff
\* sleeps when it returns None.
C1_ExhaustedCounts ==
  (op = "done" /\ position = None /\ TemplateLoaded)
    => (matchCalls = max_attempts /\ backoffSleeps = max_attempts - 1)

\* What the code does in C1's case: n matching invocations and n sleeps.
C1_CodeSleepsAfterLastAttempt ==
  (op = "done" /\ position = None /\ TemplateLoaded)
    => (matchCalls = max_attempts /\ backoffSleeps = max_attempts)

\* C2: when the matching capability first reports a point on attempt k,
\* find_with_retry returns exactly that point at once: k matching
\* invocations and k-1 backoff sleeps have been made, and no matching
\* invocation follows the return.
C2_ReturnsOnFirstSuccess ==
  [][/\ (op = "try" /\ matched' # <<>> /\ Truthy(LocateResult(matched'[1])))
          => /\ op' = "done"
             /\ position' = matched'[1].point
             /\ attempt' = attempt
             /\ matchCalls' = attempt
             /\ backoffSleeps' = attempt - 1
     /\ (op = "done") => (matched' = <<>> /\ backoffSleeps' \in {0, backoffSleeps})
    ]_vars

\* Scenario B: a point on attempt 2 of 3, after exactly one backoff sleep.
C2_Witness ==
  /\ pc = "locate"
  /\ op = "done"
  /\ Truthy(position)
  /\ max_attempts = 3
  /\ attempt = 2
  /\ matchCalls = 2
  /\ backoffSleeps = 1

\* C3: once a name is cached as a miss, it stays a miss, and every later
\* _load_image call for it returns the miss without calling os.path.exists
\* or cv2.imread.
C3_MissIsPermanent ==
  [][\A n \in Names :
       (n \in DOMAIN IMAGE_CACHE /\ IMAGE_CACHE[n] = NoImage)
         => /\ n \in DOMAIN IMAGE_CACHE'
            /\ IMAGE_CACHE'[n] = NoImage
            /\ \A i \in DOMAIN loads' :
                 loads'[i].name = n
                   => /\ loads'[i].ret = NoImage
                      /\ ~loads'[i].exists
                      /\ ~loads'[i].imread
    ]_vars

\* A _load_image call answered with a miss from the cache, while another
\* name is cached as an image.
C3_Witness ==
  /\ pc = "locate"
  /\ \E i \in DOMAIN loads :
       /\ loads[i].ret = NoImage
       /\ ~loads[i].exists
  /\ \E n \in DOMAIN IMAGE_CACHE : IMAGE_CACHE[n] # NoImage

\* C4: once a name is cached as an image, every later _load_image call for
\* it returns that same image without cv2.imread, and no entry of the cache
\* is ever removed or replaced.
C4_HitIsIdempotent ==
  [][\A n \in Names :
       (n \in DOMAIN IMAGE_CACHE)
         => /\ n \in DOMAIN IMAGE_CACHE'
            /\ IMAGE_CACHE'[n] = IMAGE_CACHE[n]
            /\ IMAGE_CACHE[n] # NoImage
                 => \A i \in DOMAIN loads' :
                      loads'[i].name = n
                        => /\ loads'[i].ret = IMAGE_CACHE[n]
                           /\ ~loads'[i].exists
                           /\ ~loads'[i].imread
    ]_vars

\* A _load_image call answered with the cached image.
C4_Witness ==
  /\ pc = "locate"
  /\ \E i \in DOMAIN loads :
       /\ loads[i].ret # NoImage
       /\ ~loads[i].imread
       /\ IMAGE_CACHE[loads[i].name] = loads[i].ret

\* C5: a find_image whose template resolves to a miss returns None without
\* invoking the matching capability, so a find_with_retry on a missing
\* template has made no matching invocation when it returns.
C5_MissSkipsMatching ==
  [][/\ (op = "try" /\ loads' # <<>> /\ loads'[1].ret = NoImage)
          => /\ matched' = <<>>
             /\ matchCalls' = matchCalls
             /\ position' = None
             /\ op' = "backoff"
     /\ (op' = "done" /\ TemplateMissed') => matchCalls' = 0
    ]_vars

\* find_with_retry returned after three attempts on a missing template.
C5_Witness ==
  /\ pc = "locate"
  /\ op = "done"
  /\ TemplateMissed
  /\ max_attempts = 3
  /\ attempt = 3
  /\ matchCalls = 0

\* --------------------------------------------- claims on ClickExecutor
\* C6: every coordinate execute_click passes to the pointer-move capability
\* satisfies 0 <= x <= screen_w and 0 <= y <= screen_h.
C6_TargetOnScreen ==
  \A i \in DOMAIN pointer :
    pointer[i].call = "moveTo"
      => /\ 0 <= pointer[i].x /\ pointer[i].x <= display[1]
         /\ 0 <= pointer[i].y /\ pointer[i].y <= display[2]

\* A move clamped at both ends: a negative offset brought x back to 0, a
\* positive offset and jitter brought y back to the screen height.
C6_Witness ==
  /\ pc = "click"
  /\ pointer # <<>>
  /\ args.position = <<0, 0>>
  /\ args.offset_x < 0
  /\ args.offset_y > 0
  /\ args.random_offset
  /\ pointer[1].call = "moveTo"
  /\ pointer[1].x = 0
  /\ pointer[1].y = display[2]

\* -------------------------------------------------- claims on GameAuto
\* C7: no locate or click operation the orchestrator invokes (find_image,
\* find_with_retry, execute_click, smart_click, with the keyword arguments
\* the orchestrator passes) ever raises.
C7_NeverRaises == exc # "TypeError"

\* C8: unless the user interrupts, the battle loop never stops: once the
\* loop has been entered, the control flow stays inside it.
C8_LoopNeverStops ==
  (Truthy(origin_pos) /\ exc # "KeyboardInterrupt") => pc \in LoopPcs

\* C9: when the first 'battle_start.png' click succeeded and the fatigue
\* prompt is not found within its two attempts, _process_battle_start
\* returns True (the cycle goes on to _handle_battle_result) and that first
\* click is the only click of the call.
C9_NoFatigueNoExtraClick ==
  [][(/\ pc = "fatigue"
      /\ op = "done"
      /\ ~Truthy(position)
      /\ op' = "idle"
      /\ exc' = "none")
       => /\ pc' = "res_click1"
          /\ bsClicks = 1
          /\ bsClicks' = 1
          /\ pointer' = <<>>
    ]_vars

\* _process_battle_start has just returned True with no fatigue prompt found,
\* after both attempts of the probe.
C9_Witness ==
  /\ pc = "res_click1"
  /\ op = "idle"
  /\ position = None
  /\ bsClicks = 1
  /\ "fatigue_value.png" \in DOMAIN IMAGE_CACHE
  /\ IMAGE_CACHE["fatigue_value.png"] # NoImage

C11_StartupFailureIsFatal ==
  [][ /\ (pc = "origin" /\ op = "done" /\ ~Truthy(position)
            /\ exc' # "KeyboardInterrupt")
           => /\ attempt = DefaultMaxAttempts
              /\ pc' = "fatal"
              /\ exc' = "RuntimeError"
              /\ origin_pos' = None
      /\ (pc \in {"init", "origin"})
           => (pointer' = <<>> /\ click_call' = <<>> /\ click_ret' = <<>>)
      /\ (pc = "fatal") => FALSE
    ]_vars

\* The template was loaded and matched against the screen, no attempt found
\* it, and the program has ended with RuntimeError.
C11_Witness ==
  /\ pc = "fatal"
  /\ exc = "RuntimeError"
  /\ screen = display
  /\ origin_pos = None
  /\ "game_pos.png" \in DOMAIN IMAGE_CACHE
  /\ IMAGE_CACHE["game_pos.png"] # NoImage

\* C12: when the fatigue prompt is found after the first click on "battle
\* start", the cycle makes, in this order, a click on the prompt's confirm
\* control (the prompt's point + (72, 55)), a locate+click of "ok" and one
\* more locate+click of "battle start"; AwaitingResult follows when that
\* locate+click succeeds and the cycle ends when it does not, whatever the
\* click on the confirm control and the click on "ok" returned.
C12_FatiguePath ==
  [][ (exc' = exc) =>
        /\ (pc = "fatigue" /\ op = "done" /\ Truthy(position))
             => (pc' = "fat_click" /\ position' = position)
        /\ (pc = "fat_click")
             => /\ pc' = "fat_ok"
                /\ click_call' = <<[position |-> position, offset_x |-> 72,
                                    offset_y |-> 55, random_offset |-> TRUE]>>
        /\ (pc = "fat_ok" /\ op = "idle")
             => (pc' = pc /\ op' = "try" /\ img_name' = "ok.png")
        /\ (pc = "fat_ok" /\ op = "done")
             => /\ pc' = "bstart2"
                /\ (click_call' # <<>>) = Truthy(position)
        /\ (pc = "bstart2" /\ op = "idle")
             => (pc' = pc /\ op' = "try" /\ img_name' = "battle_start.png")
        /\ (pc = "bstart2" /\ op = "done")
             => pc' = IF click_ret' = <<TRUE>> THEN "res_click1" ELSE "select"
    ]_vars

\* AwaitingResult is entered from the fatigue branch: the first "battle
\* start" and the confirm control were clicked, "ok" was not found, and the
\* second click on "battle start" succeeded.
C12_Witness ==
  /\ pc = "res_click1"
  /\ bsClicks = 3
  /\ click_ret = <<TRUE>>

\* C13: when "team select" is not found within the retry budget, the cycle
\* ends without a pointer move or click and without a probe of any other
\* template, and the next cycle starts with the locate of "team select".
C13_NoTeamSelectEndsCycle ==
  [][ (exc' = exc) =>
        /\ (pc = "select" /\ op = "idle")
             => /\ pc' = pc /\ op' = "try"
                /\ img_name' = "select_start.png"
        /\ (pc = "select" /\ op \in {"idle", "try", "backoff"})
             => /\ pc' = pc
                /\ img_name' = "select_start.png"
                /\ pointer' = <<>> /\ click_call' = <<>>
        /\ (pc = "select" /\ op = "done" /\ ~Truthy(position))
             => /\ pc' = "select" /\ op' = "idle"
                /\ pointer' = <<>> /\ click_call' = <<>>
                /\ loads' = <<>> /\ matched' = <<>>
                /\ ~skipFound' /\ ~skipClicked'
    ]_vars

\* A cycle has just ended at team select: the template is loaded, nothing
\* was clicked, no later template was ever probed.
C13_Witness ==
  /\ pc = "select"
  /\ op = "idle"
  /\ "select_start.png" \in DOMAIN IMAGE_CACHE
  /\ IMAGE_CACHE["select_start.png"] # NoImage
  /\ "battle_start.png" \notin DOMAIN IMAGE_CACHE
  /\ click_ret = <<>>
  /\ pointer = <<>>

\* C14: a KeyboardInterrupt raised while the main loop runs stops it: the
\* step makes no locate, sleep or click, execute_battle_flow returns
\* normally (the exception does not leave it), and nothing is done
\* afterwards, no new cycle either.
C14_InterruptStopsCleanly ==
  [][ /\ (pc \in LoopPcs /\ exc' = "KeyboardInterrupt")
           => /\ pc' = "stopped"
              /\ op' = "idle"
              /\ loads' = <<>> /\ matched' = <<>> /\ slept' = <<>>
              /\ pointer' = <<>> /\ click_call' = <<>>
      /\ (pc' = "stopped") => (exc' = "KeyboardInterrupt")
      /\ (pc = "stopped") => FALSE
    ]_vars

\* The loop was stopped by an interrupt after it had gone past team select.
C14_Witness ==
  /\ pc = "stopped"
  /\ exc = "KeyboardInterrupt"
  /\ "battle_start.png" \in DOMAIN IMAGE_CACHE

\* C15: an exception other than KeyboardInterrupt that leaves a battle
\* cycle is re-raised out of execute_battle_flow and ends the process: no
\* step follows it, no new cycle either.
C15_ErrorEndsProcess ==
  [][ /\ (pc \in LoopPcs /\ exc' \notin {"none", "KeyboardInterrupt"})
           => /\ pc' = "raised"
              /\ op' = "idle"
              /\ pointer' = <<>> /\ click_call' = <<>>
      /\ (pc' = "raised") => (exc' \notin {"none", "KeyboardInterrupt"})
      /\ (pc = "raised") => FALSE
    ]_vars

\* A TypeError raised in the skip branch has ended the program.
C15_Witness ==
  /\ pc = "raised"
  /\ exc = "TypeError"
  /\ skipFound
  /\ skipClicked

\* C16: in a cycle that reaches AwaitingResult, exactly two execute_click
\* calls on origin_pos with offset (200, 200) are made before the first
\* attempt to locate "skip battle", and that attempt is made whatever the
\* two clicks returned.
C16_TwoClicksThenSkipProbe ==
  [][ (exc' = exc) =>
        /\ (pc \in {"res_click1", "res_click2"})
             => /\ click_call' = <<[position |-> origin_pos,
                                    offset_x |-> 200, offset_y |-> 200,
                                    random_offset |-> TRUE]>>
                /\ pc' = IF pc = "res_click1" THEN "res_click2" ELSE "skip"
                /\ op' = "idle"
        /\ (pc' = "res_click2" /\ pc # pc') => pc = "res_click1"
        /\ (pc' = "skip" /\ pc # pc') => pc = "res_click2"
        /\ (img_name' = "battle_skip.png") => pc' = "skip"
        /\ (pc = "skip" /\ op = "idle")
             => /\ pc' = pc /\ op' = "try"
                /\ img_name' = "battle_skip.png"
                /\ click_call' = <<>>
    ]_vars

\* The second of the two clicks has failed and the probe of "skip battle"
\* is next.
C16_Witness ==
  /\ pc = "skip"
  /\ op = "idle"
  /\ click_ret = <<FALSE>>
  /\ click_call # <<>>
  /\ click_call[1].position = origin_pos
  /\ click_call[1].offset_x = 200

\* ----------------------------------------------- claims on the numbers
\* C17: the coordinate execute_click sends to the pointer is the clamp into
\* the screen rectangle of a target that differs from
\* point + (offset_x, offset_y) by at most 5 pixels on each axis when
\* random_offset is true and is exactly that point when it is false.
C17_TargetWithinJitter ==
  pointer # <<>> =>
    \E jx, jy \in IF args.random_offset THEN (0 - 5)..5 ELSE {0} :
      LET ux == args.position[1] + args.offset_x + jx
          uy == args.position[2] + args.offset_y + jy
          cx == IF ux < 0 THEN 0 ELSE IF ux > display[1] THEN display[1] ELSE ux
          cy == IF uy < 0 THEN 0 ELSE IF uy > display[2] THEN display[2] ELSE uy
      IN  \A i \in DOMAIN pointer : pointer[i].x = cx /\ pointer[i].y = cy

\* A click whose jitter was the largest allowed on x, on a screen wide
\* enough not to clamp it.
C17_Witness ==
  /\ pc = "click"
  /\ Len(pointer) = 2
  /\ args.random_offset
  /\ args.position = <<0, 0>>
  /\ args.offset_x = 4
  /\ display[1] > 4 + CLICK_OFFSET
  /\ pointer[1].x = 4 + CLICK_OFFSET

\* C18: the backoff sleep find_with_retry makes after failed attempt k
\* (k >= 1) lasts max(2^k * base_interval + j, 0.1 s) for a jitter j within
\* [-0.2 s, 0.2 s], base_interval being the configured retry interval when
\* none is passed; it is never shorter than 0.1 s.  (base_interval is a
\* positive number or None.)
C18_BackoffSleep ==
  [][ (op = "backoff") =>
        /\ slept' # <<>>
        /\ slept'[1] >= 1
        /\ (base_interval # <<0>>) =>
             LET b == IF base_interval = None THEN retry_interval
                      ELSE base_interval[1]
             IN  \E j \in (0 - 2)..2 :
                   LET t == (2 ^ attempt) * b + j
                   IN  slept'[1] = IF t < 1 THEN 1 ELSE t
    ]_vars

\* The sleep after the second failed attempt, with the configured interval
\* and the shortest jitter.
C18_Witness ==
  /\ pc = "locate"
  /\ op = "try"
  /\ attempt = 3
  /\ base_interval = None
  /\ retry_interval > 0
  /\ slept = <<4 * retry_interval - BackoffJitter>>

C20_OriginFixedWhileLooping ==
  [][ /\ (pc = "origin" /\ pc' = "select") => origin_pos' = position
      /\ (pc' \in LoopPcs)
           => (screen' = display /\ Truthy(origin_pos')
                 /\ origin_pos' \in Points)
      /\ (pc \in LoopPcs) => (origin_pos' = origin_pos /\ screen' = screen)
      /\ (pc \in {"res_click1", "res_click2", "sk_click"}
            /\ click_call' # <<>>)
           => click_call'[1].position = origin_pos
    ]_vars

\* A click on origin_pos in the skip branch, after the fatigue prompt was
\* probed in the same run.
C20_Witness ==
  /\ pc = "sk_result"
  /\ click_call # <<>>
  /\ click_call[1].position = origin_pos
  /\ origin_pos = <<3, 2>>
  /\ "fatigue_value.png" \in DOMAIN IMAGE_CACHE

====
